---- MODULE Spec2Model ----
(***************************************************************************)
(* Model of src/compare.js, the bundle-report comparator.                  *)
(*                                                                         *)
(* The script is one linear run: load two reports and the options, pull    *)
(* the __global entry out of both, compare the global bundles, walk the    *)
(* pages of the current report, and append the rendered sections to the    *)
(* output.  Each block of the script is one action; pc is the position of  *)
(* the run.                                                                *)
(*                                                                         *)
(* Numbers.  Sizes are integers (bytes).  A percentage that the code       *)
(* passes through toFixed(2) is kept as an integer number of hundredths    *)
(* of a percent.  An unrounded percentage is kept as a fraction            *)
(* [n |-> numerator, d |-> denominator] with d >= 0, where d = 0 stands    *)
(* for the IEEE results of a division by zero (n > 0: Infinity,            *)
(* n < 0: -Infinity, n = 0: NaN).  The red threshold is kept in hundredths *)
(* of a percent.                                                           *)
(*                                                                         *)
(* Text.  The output is a sequence of sections; a section stands for the   *)
(* whole text the code appends for it (headline, table, details block)     *)
(* and carries the rows of its table.                                      *)
(***************************************************************************)
EXTENDS Integers, Sequences, FiniteSets

VARIABLES pc, options, currentBundle, baseBundle,
          globalBundleCurrent, globalBundleBase, globalBundleChanges,
          visited, changedPages, newPages, output, hasNoChanges,
          percentageChange, res

vars == <<pc, options, currentBundle, baseBundle,
          globalBundleCurrent, globalBundleBase, globalBundleChanges,
          visited, changedPages, newPages, output, hasNoChanges,
          percentageChange, res>>

-----------------------------------------------------------------------------
(* Bounds of the model. *)

\* gzip sizes of the reports are drawn from 0..MaxSize
MaxSize == 1

\* numerators of the percentages handed to renderStatusIndicator, in
\* thousandths of a percent, are drawn from -MaxDelta..MaxDelta
MaxDelta == 30

-----------------------------------------------------------------------------
(* Inputs. *)

\* the pages a report may hold, in the order the reports list them
PageOrder == <<"a", "b">>

PageNames == {PageOrder[i] : i \in 1..Len(PageOrder)}

Abs(x) == IF x < 0 THEN -x ELSE x

\* a value that is undefined in the code
Undefined == [present |-> FALSE]

Some(stats) == [present |-> TRUE, raw |-> stats.raw, gzip |-> stats.gzip]

\* the { raw, gzip } entries a page may hold, gzip drawn from gzips
StatsOver(gzips) == {[raw |-> 2 * g + r, gzip |-> g] : g \in gzips, r \in {0, 1}}

\* the { raw, gzip } entries __global may hold, gzip drawn from gzips
GlobalStatsOver(gzips) == {[raw |-> 3 * g, gzip |-> g] : g \in gzips}

\* a report: any subset of the pages, plus the __global entry
ReportsOver(gzips, globals) ==
    UNION {{[k \in S \cup {"__global"} |->
                IF k = "__global" THEN g ELSE f[k]] :
              f \in [S -> StatsOver(gzips)], g \in GlobalStatsOver(globals)} :
           S \in SUBSET PageNames}

\* the options of package.json; budget 0 stands for no budget (both are
\* falsy), hasMinimumChangeThreshold for 'minimumChangeThreshold' in options
OptionsOver(budgets, thresholds, reds) ==
    {[budget |-> b, budgetPercentIncreaseRed |-> t, skipCommentIfEmpty |-> s,
      hasMinimumChangeThreshold |-> FALSE, minimumChangeThreshold |-> 0] :
        b \in budgets, t \in reds, s \in BOOLEAN}
    \cup
    {[budget |-> b, budgetPercentIncreaseRed |-> t, skipCommentIfEmpty |-> s,
      hasMinimumChangeThreshold |-> TRUE, minimumChangeThreshold |-> m] :
        b \in budgets, t \in reds, s \in BOOLEAN, m \in thresholds}

BUDGET == options.budget

BUDGET_PERCENT_INCREASE_RED == options.budgetPercentIncreaseRed

SKIP_COMMENT_IF_EMPTY == options.skipCommentIfEmpty

-----------------------------------------------------------------------------
(* Numbers. *)

\* a / b rounded to the nearest integer, halves away from zero (b > 0)
RoundDiv(a, b) ==
    IF a >= 0 THEN (2 * a + b) \div (2 * b)
    ELSE -((2 * (-a) + b) \div (2 * b))

\* the values a variable of markdownTable holds: the number 0, the string
\* "NaN" (a division by an undefined budget), or a toFixed(2) string, kept
\* as its number of hundredths
Number0 == [kind |-> "number", h |-> 0]

NaNString == [kind |-> "NaN", h |-> 0]

Fixed(h) == [kind |-> "fixed", h |-> h]

\* ((a / BUDGET) * 100).toFixed(2)
PercentOfBudget(a) ==
    IF BUDGET = 0 THEN NaNString ELSE Fixed(RoundDiv(a * 10000, BUDGET))

\* JavaScript truthiness of such a value: every non-empty string is truthy
Truthy(x) == x.kind # "number"

\* the fraction a value stands for when it is compared with a number
AsFraction(x) ==
    IF x.kind = "NaN" THEN [n |-> 0, d |-> 0] ELSE [n |-> x.h, d |-> 100]

-----------------------------------------------------------------------------
(* Utility functions of the script. *)

\* renderStatusIndicator with the red test written > instead of >=
renderStatusIndicatorGt(p) ==
    LET red == BUDGET_PERCENT_INCREASE_RED
        nan == p.n = 0 /\ p.d = 0
    IN  IF p.n > 0 /\ p.n * 100 < red * p.d THEN "yellow"
        ELSE IF ~nan /\ p.n * 100 > red * p.d THEN "red"
        ELSE IF p.n * 100 < p.d /\ p.n * 100 > -p.d THEN "none"
        ELSE "green"

\* renderStatusIndicator (lines 330-342), of a fraction p
renderStatusIndicator(p) ==
    LET red == BUDGET_PERCENT_INCREASE_RED
        nan == p.n = 0 /\ p.d = 0
    IN  IF p.n > 0 /\ p.n * 100 < red * p.d THEN "yellow"
        ELSE IF ~nan /\ p.n * 100 >= red * p.d THEN "red"
        ELSE IF p.n * 100 < p.d /\ p.n * 100 > -p.d THEN "none"
        ELSE "green"

\* d.gzipDiff, undefined (falsy, like 0) for the entry of a new page
GzipDiffOf(d) == IF "gzipDiff" \in DOMAIN d THEN d.gzipDiff ELSE 0

\* renderSize (lines 287-295): the size cell of a row
renderSize(d, showBudgetDiff) ==
    LET gzd == GzipDiffOf(d)
        percentChange == [n |-> gzd * 100, d |-> d.gzip]
    IN  IF gzd # 0 /\ ~showBudgetDiff
        THEN [gzip |-> d.gzip, diffShown |-> TRUE,
              indicator |-> renderStatusIndicator(percentChange), diff |-> gzd]
        ELSE [gzip |-> d.gzip, diffShown |-> FALSE, indicator |-> "none", diff |-> 0]

\* renderFirstLoad (lines 279-282): the first-load cell of a row
renderFirstLoad(gCurrent, firstLoadSize) ==
    IF ~gCurrent.present THEN [shown |-> FALSE, size |-> 0]
    ELSE [shown |-> TRUE, size |-> firstLoadSize]

\* renderBudgetPercentage (lines 299-321): the budget cell of a row
renderBudgetPercentage(showBudget, budgetPercentage, previousBudgetPercentage, budgetChange) ==
    IF ~showBudget
    THEN [shown |-> FALSE, percentage |-> 0, changeShown |-> FALSE,
          indicator |-> "none", negligible |-> FALSE, change |-> 0]
    ELSE [shown |-> TRUE, percentage |-> budgetPercentage.h,
          changeShown |-> Truthy(previousBudgetPercentage),
          indicator |-> renderStatusIndicator(AsFraction(budgetChange)),
          negligible |-> budgetChange.h * 100 < 100 /\ budgetChange.h * 100 > -100,
          change |-> budgetChange.h]

\* one row of markdownTable (lines 239-272)
TableRow(d, gCurrent, gBase) ==
    LET showBudget == gCurrent.present /\ BUDGET # 0
        showBudgetDiff == BUDGET # 0 /\ gBase.present
        firstLoadSize == IF gCurrent.present THEN d.gzip + gCurrent.gzip ELSE 0
        budgetPercentage ==
            IF showBudget THEN PercentOfBudget(firstLoadSize) ELSE Number0
        previousBudgetPercentage ==
            IF gBase.present /\ GzipDiffOf(d) # 0
            THEN PercentOfBudget(gCurrent.gzip + d.gzip + d.gzipDiff)
            ELSE Number0
        budgetChange ==
            IF Truthy(previousBudgetPercentage)
            THEN IF previousBudgetPercentage.kind = "NaN" THEN NaNString
                 ELSE Fixed(previousBudgetPercentage.h - budgetPercentage.h)
            ELSE Number0
    IN  [page |-> d.page,
         size |-> renderSize(d, showBudgetDiff),
         firstLoad |-> renderFirstLoad(gCurrent, firstLoadSize),
         previousBudgetPercentage |-> previousBudgetPercentage,
         budget |-> renderBudgetPercentage(showBudget, budgetPercentage,
                                           previousBudgetPercentage, budgetChange)]

\* markdownTable (lines 226-274): the rows of a table, one per entry
markdownTable(data, gCurrent, gBase) ==
    [i \in 1..Len(data) |-> TableRow(data[i], gCurrent, gBase)]

-----------------------------------------------------------------------------
(* The script. *)

Section(name, rows) == [section |-> name, rows |-> rows]

Sign(x) == IF x > 0 THEN 1 ELSE IF x < 0 THEN -1 ELSE 0

\* the pages of the current report the loop has not reached yet
Unvisited == DOMAIN currentBundle \ visited

\* for (let page in currentBundle): the next key, in the report's order
NextPage ==
    PageOrder[CHOOSE i \in 1..Len(PageOrder) :
                /\ PageOrder[i] \in Unvisited
                /\ \A j \in 1..(i - 1) : PageOrder[j] \notin Unvisited]

\* the base entry read from the current report instead of the base report
BaseStatsOfCurrent(page) ==
    IF page \in DOMAIN currentBundle THEN Some(currentBundle[page]) ELSE Undefined

\* baseBundle[page] (line 84), undefined when the base report lacks the page
BaseStats(page) ==
    IF page \in DOMAIN baseBundle THEN Some(baseBundle[page]) ELSE Undefined

\* the two entries themselves compared with !==: two objects loaded from two
\* files are never the same object
GzipDiffersAsObjects(currentStats, baseStats) == TRUE

\* currentStats.gzip !== baseStats.gzip (line 91)
GzipDiffers(currentStats, baseStats) == currentStats.gzip # baseStats.gzip

\* the global test with >= in place of >
GlobalChangeReportedGe(globalGzipDiff) ==
    /\ globalGzipDiff # 0
    /\ \/ ~options.hasMinimumChangeThreshold
       \/ Abs(globalGzipDiff) >= options.minimumChangeThreshold

\* the condition of lines 63-67 on the global gzip difference
GlobalChangeReported(globalGzipDiff) ==
    /\ globalGzipDiff # 0
    /\ \/ ~options.hasMinimumChangeThreshold
       \/ Abs(globalGzipDiff) > options.minimumChangeThreshold

\* the page test with >= in place of >
PageChangeReportedGe(gzipDiff) ==
    \/ ~options.hasMinimumChangeThreshold
    \/ Abs(gzipDiff) >= options.minimumChangeThreshold

\* the condition of lines 99-102 on a page's gzip difference
PageChangeReported(gzipDiff) ==
    \/ ~options.hasMinimumChangeThreshold
    \/ Abs(gzipDiff) > options.minimumChangeThreshold

\* the entry lines 94-103 build for a page of both reports
ChangedEntry(page, currentStats, baseStats) ==
    LET rawDiff == currentStats.raw - baseStats.raw
        gzipDiff == currentStats.gzip - baseStats.gzip
        increase == Sign(gzipDiff) # 0
    IN  [page |-> page, raw |-> currentStats.raw, gzip |-> currentStats.gzip,
         rawDiff |-> rawDiff, gzipDiff |-> gzipDiff, increase |-> increase]

\* the entry line 90 builds for a page the base report lacks
NewEntry(page, currentStats) ==
    [page |-> page, raw |-> currentStats.raw, gzip |-> currentStats.gzip]

\* hasNoChanges that also asks that no page of the base report is gone
NoChangesUnlessRemoved ==
    /\ Len(newPages) = 0 /\ Len(changedPages) = 0 /\ ~globalBundleChanges.changed
    /\ DOMAIN baseBundle \subseteq DOMAIN currentBundle

\* hasNoChanges without the test of the global bundle
NoChangesIgnoringGlobal == Len(newPages) = 0 /\ Len(changedPages) = 0

\* the value of hasNoChanges (lines 189-190)
NoChanges ==
    Len(newPages) = 0 /\ Len(changedPages) = 0 /\ ~globalBundleChanges.changed

Init ==
    /\ pc = "global"
    /\ options \in OptionsOver({0, 3}, {0, 1}, {2000})
    /\ currentBundle \in ReportsOver(0..MaxSize, 0..MaxSize)
    /\ baseBundle \in ReportsOver(0..MaxSize, 0..MaxSize)
    /\ globalBundleCurrent = Undefined
    /\ globalBundleBase = Undefined
    /\ globalBundleChanges = [changed |-> FALSE]
    /\ visited = {}
    /\ changedPages = <<>>
    /\ newPages = <<>>
    /\ output = <<Section("header", <<>>)>>
    /\ hasNoChanges = FALSE
    /\ percentageChange = [n |-> 0, d |-> 1]
    /\ res = ""

\* lines 52-75: pull __global out of both reports and compare the two
ExtractGlobal ==
    /\ pc = "global"
    /\ LET current == currentBundle["__global"]
           base == baseBundle["__global"]
           globalGzipDiff == current.gzip - base.gzip
       IN  /\ globalBundleCurrent' = Some(current)
           /\ globalBundleBase' = Some(base)
           /\ currentBundle' =
                [k \in DOMAIN currentBundle \ {"__global"} |-> currentBundle[k]]
           /\ baseBundle' =
                [k \in DOMAIN baseBundle \ {"__global"} |-> baseBundle[k]]
           /\ globalBundleChanges' =
                IF GlobalChangeReported(globalGzipDiff)
                THEN [changed |-> TRUE, page |-> "global", raw |-> current.raw,
                      gzip |-> current.gzip, gzipDiff |-> globalGzipDiff,
                      increase |-> Sign(globalGzipDiff) > 0]
                ELSE [changed |-> FALSE]
           /\ pc' = IF DOMAIN currentBundle = {"__global"}
                    THEN "renderGlobal" ELSE "pages"
    /\ UNCHANGED <<options, visited, changedPages, newPages, output,
                   hasNoChanges, percentageChange, res>>

\* lines 82-106: one turn of the loop over the pages of the current report
ComparePage ==
    /\ pc = "pages"
    /\ Unvisited # {}
    /\ LET page == NextPage
           currentStats == currentBundle[page]
           baseStats == BaseStats(page)
       IN  /\ visited' = visited \cup {page}
           /\ IF ~baseStats.present
              THEN /\ newPages' = Append(newPages, NewEntry(page, currentStats))
                   /\ UNCHANGED changedPages
              ELSE IF GzipDiffers(currentStats, baseStats)
                      /\ PageChangeReported(currentStats.gzip - baseStats.gzip)
              THEN /\ changedPages' =
                        Append(changedPages,
                               ChangedEntry(page, currentStats, baseStats))
                   /\ UNCHANGED newPages
              ELSE UNCHANGED <<newPages, changedPages>>
           /\ pc' = IF Unvisited = {page} THEN "renderGlobal" ELSE "pages"
    /\ UNCHANGED <<options, currentBundle, baseBundle, globalBundleCurrent,
                   globalBundleBase, globalBundleChanges, output, hasNoChanges,
                   percentageChange, res>>

\* lines 110-132: the global bundle section
RenderGlobal ==
    /\ pc = "renderGlobal"
    /\ output' =
         IF globalBundleChanges.changed
         THEN Append(output,
                     Section("global",
                             markdownTable(<<globalBundleChanges>>,
                                           Undefined, Undefined)))
         ELSE output
    /\ pc' = "renderNew"
    /\ UNCHANGED <<options, currentBundle, baseBundle, globalBundleCurrent,
                   globalBundleBase, globalBundleChanges, visited, changedPages,
                   newPages, hasNoChanges, percentageChange, res>>

\* lines 135-151: the new pages section
RenderNewPages ==
    /\ pc = "renderNew"
    /\ output' =
         IF Len(newPages) # 0
         THEN Append(output,
                     Section("new",
                             markdownTable(newPages, globalBundleCurrent,
                                           Undefined)))
         ELSE output
    /\ pc' = "renderChanged"
    /\ UNCHANGED <<options, currentBundle, baseBundle, globalBundleCurrent,
                   globalBundleBase, globalBundleChanges, visited, changedPages,
                   newPages, hasNoChanges, percentageChange, res>>

\* lines 155-186: the changed pages section
RenderChangedPages ==
    /\ pc = "renderChanged"
    /\ output' =
         IF Len(changedPages) # 0
         THEN Append(output,
                     Section("changed",
                             markdownTable(changedPages, globalBundleCurrent,
                                           globalBundleBase)))
         ELSE output
    /\ pc' = "noChanges"
    /\ UNCHANGED <<options, currentBundle, baseBundle, globalBundleCurrent,
                   globalBundleBase, globalBundleChanges, visited, changedPages,
                   newPages, hasNoChanges, percentageChange, res>>

\* lines 189-193: the "no changes" sentence
AppendNoChanges ==
    /\ pc = "noChanges"
    /\ hasNoChanges' = NoChanges
    /\ output' = IF NoChanges THEN Append(output, Section("noChanges", <<>>))
                 ELSE output
    /\ pc' = "tag"
    /\ UNCHANGED <<options, currentBundle, baseBundle, globalBundleCurrent,
                   globalBundleBase, globalBundleChanges, visited, changedPages,
                   newPages, percentageChange, res>>

\* lines 195-197: the tag the action finds its comment by
AppendTag ==
    /\ pc = "tag"
    /\ output' = Append(output, Section("tag", <<>>))
    /\ pc' = "skipIfEmpty"
    /\ UNCHANGED <<options, currentBundle, baseBundle, globalBundleCurrent,
                   globalBundleBase, globalBundleChanges, visited, changedPages,
                   newPages, hasNoChanges, percentageChange, res>>

\* lines 199-217: empty the output if asked to, then log and write it
SkipIfEmpty ==
    /\ pc = "skipIfEmpty"
    /\ output' = IF hasNoChanges /\ SKIP_COMMENT_IF_EMPTY THEN <<>> ELSE output
    /\ pc' = "done"
    /\ UNCHANGED <<options, currentBundle, baseBundle, globalBundleCurrent,
                   globalBundleBase, globalBundleChanges, visited, changedPages,
                   newPages, hasNoChanges, percentageChange, res>>

Next ==
    \/ ExtractGlobal
    \/ ComparePage
    \/ RenderGlobal
    \/ RenderNewPages
    \/ RenderChangedPages
    \/ AppendNoChanges
    \/ AppendTag
    \/ SkipIfEmpty

Spec == Init /\ [][Next]_vars

-----------------------------------------------------------------------------
(* The script on reports of realistic size: page bundles of about           *)
(* LargeSize bytes that differ by single bytes, against a budget of the     *)
(* same order.                                                              *)

LargeSize == 20001

InitLarge ==
    /\ pc = "global"
    /\ options \in OptionsOver({0, 30000}, {0}, {2000})
    /\ currentBundle \in ReportsOver(LargeSize..(LargeSize + 1), {0, 1})
    /\ baseBundle \in ReportsOver(LargeSize..(LargeSize + 1), {0, 1})
    /\ globalBundleCurrent = Undefined
    /\ globalBundleBase = Undefined
    /\ globalBundleChanges = [changed |-> FALSE]
    /\ visited = {}
    /\ changedPages = <<>>
    /\ newPages = <<>>
    /\ output = <<Section("header", <<>>)>>
    /\ hasNoChanges = FALSE
    /\ percentageChange = [n |-> 0, d |-> 1]
    /\ res = ""

SpecLarge == InitLarge /\ [][Next]_vars

-----------------------------------------------------------------------------
(* renderStatusIndicator on its own, applied to a percentage and a red      *)
(* threshold drawn from bounded sets.                                       *)

\* red thresholds, in hundredths of a percent: -0.01, 0, 0.01, 0.02, 0.2, 20
RedThresholds == {-1, 0, 1, 2, 20, 2000}

\* percentages: thousandths of a percent, whole percents, and the results
\* of a division by zero
Percentages ==
    {[n |-> n, d |-> d] : n \in (-MaxDelta)..MaxDelta, d \in {0, 1, 1000}}

InitIndicator ==
    /\ pc = "indicator"
    /\ options \in {[budget |-> 0, budgetPercentIncreaseRed |-> t,
                     skipCommentIfEmpty |-> FALSE,
                     hasMinimumChangeThreshold |-> FALSE,
                     minimumChangeThreshold |-> 0] : t \in RedThresholds}
    /\ percentageChange \in Percentages
    /\ res = ""
    /\ currentBundle = <<>>
    /\ baseBundle = <<>>
    /\ globalBundleCurrent = Undefined
    /\ globalBundleBase = Undefined
    /\ globalBundleChanges = [changed |-> FALSE]
    /\ visited = {}
    /\ changedPages = <<>>
    /\ newPages = <<>>
    /\ output = <<>>
    /\ hasNoChanges = FALSE

\* a call of renderStatusIndicator (lines 330-342)
CallRenderStatusIndicator ==
    /\ pc = "indicator"
    /\ res' = renderStatusIndicator(percentageChange)
    /\ pc' = "indicated"
    /\ UNCHANGED <<options, currentBundle, baseBundle, globalBundleCurrent,
                   globalBundleBase, globalBundleChanges, visited, changedPages,
                   newPages, output, hasNoChanges, percentageChange>>

NextIndicator == CallRenderStatusIndicator

SpecIndicator == InitIndicator /\ [][NextIndicator]_vars

-----------------------------------------------------------------------------
(* Vocabulary of the properties. *)

\* the loop over the pages has run to its end
Compared == pc \in {"renderGlobal", "renderNew", "renderChanged", "noChanges",
                    "tag", "skipIfEmpty", "done"}

\* the script has run to its end
Final == pc = "done"

InList(list, page) == \E i \in 1..Len(list) : list[i].page = page

Occurrences(list, page) == Cardinality({i \in 1..Len(list) : list[i].page = page})

SectionNames(out) == [i \in 1..Len(out) |-> out[i].section]

HasSection(out, name) == \E i \in 1..Len(out) : out[i].section = name

\* the rows of the tables of the sections called name
RowsOf(out, name) ==
    UNION {{out[i].rows[j] : j \in 1..Len(out[i].rows)} :
           i \in {k \in 1..Len(out) : out[k].section = name}}

\* the pages named in the rows of the tables of any section
PagesShown(out) ==
    UNION {{out[i].rows[j].page : j \in 1..Len(out[i].rows)} : i \in 1..Len(out)}

\* the text of a report without changes
NoChangesOutput ==
    IF SKIP_COMMENT_IF_EMPTY THEN <<>>
    ELSE <<Section("header", <<>>), Section("noChanges", <<>>),
           Section("tag", <<>>)>>

\* the two reports hold the same pages with the same sizes
SamePages == currentBundle = baseBundle

\* current __global.gzip - base __global.gzip, once both are pulled out
GlobalDelta == globalBundleCurrent.gzip - globalBundleBase.gzip

\* the global delta is nonzero and passes the threshold test
GlobalDeltaPasses ==
    /\ GlobalDelta # 0
    /\ \/ ~options.hasMinimumChangeThreshold
       \/ Abs(GlobalDelta) > options.minimumChangeThreshold

\* the gzip delta of a page of both reports is nonzero and passes the test
PageDeltaPasses(page) ==
    LET delta == currentBundle[page].gzip - baseBundle[page].gzip
    IN  /\ delta # 0
        /\ \/ ~options.hasMinimumChangeThreshold
           \/ Abs(delta) > options.minimumChangeThreshold

-----------------------------------------------------------------------------
(* C1 *)

\* C1, as claimed: whenever the current report equals the base report
\* ignoring __global, the output is the "no changes" text, or empty with
\* skipCommentIfEmpty, and no section is rendered.
C1_Claimed == (Final /\ SamePages) => output = NoChangesOutput

\* C1, amended: whenever the current report equals the base report in its
\* pages and the global gzip delta is zero or within the configured
\* minimumChangeThreshold, the output is the "no changes" text, or empty
\* with skipCommentIfEmpty, and no section is rendered.
C1_NoChanges ==
    (Final /\ SamePages /\ ~GlobalDeltaPasses) =>
        /\ output = NoChangesOutput
        /\ ~HasSection(output, "global")
        /\ ~HasSection(output, "new")
        /\ ~HasSection(output, "changed")

\* two equal lists of pages, a global delta the threshold swallows, and the
\* "no changes" text written
C1_Witness ==
    /\ Final
    /\ SamePages
    /\ DOMAIN currentBundle = PageNames
    /\ GlobalDelta # 0
    /\ ~GlobalDeltaPasses
    /\ HasSection(output, "noChanges")

(* C2 *)

\* C2: a page of both reports is in the changed-pages list exactly when its
\* gzip sizes differ and the difference passes the threshold test; a page
\* of equal gzip sizes is in neither list and in no table, whatever its raw
\* sizes are.
C2_ChangedIff ==
    Compared =>
        \A page \in DOMAIN currentBundle \cap DOMAIN baseBundle :
            /\ InList(changedPages, page) <=> PageDeltaPasses(page)
            /\ ~InList(newPages, page)
            /\ (currentBundle[page].gzip = baseBundle[page].gzip) =>
                    /\ ~InList(changedPages, page)
                    /\ page \notin PagesShown(output)
            /\ Final /\ output # <<>> =>
                    (page \in PagesShown(output) <=> PageDeltaPasses(page))

\* one page of equal gzip and different raw sizes left out, another whose
\* difference equals the threshold left out as well
C2_Witness ==
    /\ Final
    /\ DOMAIN currentBundle = PageNames
    /\ DOMAIN baseBundle = PageNames
    /\ currentBundle["a"].gzip = baseBundle["a"].gzip
    /\ currentBundle["a"].raw # baseBundle["a"].raw
    /\ options.hasMinimumChangeThreshold
    /\ Abs(currentBundle["b"].gzip - baseBundle["b"].gzip)
         = options.minimumChangeThreshold
    /\ currentBundle["b"].gzip # baseBundle["b"].gzip
    /\ changedPages = <<>>

(* C3 *)

\* C3: the global change is flagged, and the global section rendered,
\* exactly when the global gzip delta is nonzero and passes the threshold
\* test; a delta equal to the threshold is suppressed.
C3_GlobalIff ==
    /\ pc # "global" => (globalBundleChanges.changed <=> GlobalDeltaPasses)
    /\ pc \in {"renderNew", "renderChanged", "noChanges", "tag", "skipIfEmpty"}
         => (HasSection(output, "global") <=> GlobalDeltaPasses)
    /\ Final /\ output # <<>> => (HasSection(output, "global") <=> GlobalDeltaPasses)

\* a global delta equal to the threshold, suppressed
C3_Witness ==
    /\ Final
    /\ options.hasMinimumChangeThreshold
    /\ GlobalDelta # 0
    /\ Abs(GlobalDelta) = options.minimumChangeThreshold
    /\ ~globalBundleChanges.changed
    /\ ~HasSection(output, "global")
    /\ output # <<>>

(* C4 *)

\* C4: a page of the current report that the base report lacks is in the
\* new-pages list and never in the changed-pages list; the two lists are
\* disjoint and hold each page of the current report at most once.
C4_NewNeverChanged ==
    /\ Compared =>
         \A page \in DOMAIN currentBundle \ DOMAIN baseBundle :
            InList(newPages, page) /\ ~InList(changedPages, page)
    /\ \A page \in PageNames :
         Occurrences(newPages, page) + Occurrences(changedPages, page) <= 1

\* a new page of a size that differs from everything, with a threshold set,
\* next to a changed page
C4_Witness ==
    /\ Final
    /\ options.hasMinimumChangeThreshold
    /\ Len(newPages) = 1
    /\ Len(changedPages) = 1
    /\ newPages[1].page \notin DOMAIN baseBundle

(* C5 *)

\* C5: a page of the base report that the current report lacks is in no
\* list and no table, and when it is the only difference between the
\* reports the output is the "no changes" text (empty with
\* skipCommentIfEmpty).
C5_RemovedDropped ==
    \A page \in DOMAIN baseBundle \ DOMAIN currentBundle :
        /\ ~InList(newPages, page)
        /\ ~InList(changedPages, page)
        /\ page \notin PagesShown(output)
        /\ (/\ Final
            /\ page # "__global"
            /\ \A q \in DOMAIN baseBundle \ {page} :
                  q \in DOMAIN currentBundle /\ currentBundle[q] = baseBundle[q]
            /\ DOMAIN currentBundle \subseteq DOMAIN baseBundle
            /\ globalBundleCurrent = globalBundleBase)
           => output = NoChangesOutput

\* the base report holds a page more than the current one and nothing else
\* differs: the "no changes" text is written
C5_Witness ==
    /\ Final
    /\ DOMAIN baseBundle = PageNames
    /\ DOMAIN currentBundle = {"a"}
    /\ currentBundle["a"] = baseBundle["a"]
    /\ globalBundleCurrent = globalBundleBase
    /\ HasSection(output, "noChanges")

(* C8 *)

\* the sections the script is to write, in their order
ExpectedSections ==
    <<"header">>
    \o (IF globalBundleChanges.changed THEN <<"global">> ELSE <<>>)
    \o (IF Len(newPages) # 0 THEN <<"new">> ELSE <<>>)
    \o (IF Len(changedPages) # 0 THEN <<"changed">> ELSE <<>>)
    \o (IF /\ ~globalBundleChanges.changed
           /\ Len(newPages) = 0
           /\ Len(changedPages) = 0
        THEN <<"noChanges">> ELSE <<>>)
    \o <<"tag">>

\* the place of a section in the fixed order
Rank(name) ==
    CASE name = "header" -> 0
      [] name = "global" -> 1
      [] name = "new" -> 2
      [] name = "changed" -> 3
      [] name = "noChanges" -> 4
      [] name = "tag" -> 5

\* C8: the sections are appended in the order global, new pages, changed
\* pages, each exactly when its condition holds; the "no changes" text is
\* appended exactly when none of the three was rendered; the output is
\* emptied only in that case and with skipCommentIfEmpty set.
C8_SectionOrder ==
    /\ \A i, j \in 1..Len(output) :
         i < j => Rank(output[i].section) < Rank(output[j].section)
    /\ pc \in {"tag", "skipIfEmpty"} =>
         (HasSection(output, "noChanges") <=>
            /\ ~HasSection(output, "global")
            /\ ~HasSection(output, "new")
            /\ ~HasSection(output, "changed"))
    /\ pc = "skipIfEmpty" => SectionNames(output) = ExpectedSections
    /\ Final =>
         IF /\ ~globalBundleChanges.changed
            /\ Len(newPages) = 0
            /\ Len(changedPages) = 0
            /\ SKIP_COMMENT_IF_EMPTY
         THEN output = <<>>
         ELSE SectionNames(output) = ExpectedSections

\* all three sections written, in their order, and no "no changes" text
C8_Witness ==
    /\ Final
    /\ SectionNames(output) = <<"header", "global", "new", "changed", "tag">>
    /\ SKIP_COMMENT_IF_EMPTY

(* C9 *)

\* C9, as claimed: every entry of the changed-pages list has
\* gzipDiff = current gzip - base gzip, rawDiff = current raw - base raw and
\* increase true exactly when gzipDiff > 0, as the global change has
\* increase true exactly when the global delta is positive.
C9_Claimed ==
    Compared =>
        /\ \A i \in 1..Len(changedPages) :
             LET e == changedPages[i]
             IN  /\ e.gzipDiff = currentBundle[e.page].gzip - baseBundle[e.page].gzip
                 /\ e.rawDiff = currentBundle[e.page].raw - baseBundle[e.page].raw
                 /\ e.increase <=> e.gzipDiff > 0
        /\ globalBundleChanges.changed =>
             (globalBundleChanges.increase <=> GlobalDelta > 0)

(* C10 *)

\* (first load / budget * 100).toFixed(2), in hundredths
BudgetPercent(firstLoad) == RoundDiv(firstLoad * 10000, BUDGET)

\* C10, as claimed: with a budget, every row of the changed-pages table has
\* first load = current page gzip + current global gzip, budget percentage
\* = first load / budget x 100, prior budget percentage = (base page gzip +
\* base global gzip) / budget x 100, and a displayed delta of the current
\* minus the prior percentage.
C10_Claimed ==
    (Final /\ BUDGET # 0) =>
        \A r \in RowsOf(output, "changed") :
            LET firstLoad == currentBundle[r.page].gzip + globalBundleCurrent.gzip
                baseFirstLoad == baseBundle[r.page].gzip + globalBundleBase.gzip
            IN  /\ r.firstLoad.size = firstLoad
                /\ r.budget.percentage = BudgetPercent(firstLoad)
                /\ r.previousBudgetPercentage.h = BudgetPercent(baseFirstLoad)
                /\ r.budget.change
                     = BudgetPercent(firstLoad) - BudgetPercent(baseFirstLoad)

-----------------------------------------------------------------------------
(* Properties of renderStatusIndicator. *)

\* p >= t, t in hundredths of a percent
AtLeast(p, t) == IF p.d = 0 THEN p.n > 0 ELSE p.n * 100 >= t * p.d

\* p < t, t in hundredths of a percent
Below(p, t) == IF p.d = 0 THEN p.n < 0 ELSE p.n * 100 < t * p.d

\* 0 < p
Positive(p) == p.n > 0

\* |p| < 0.01
Negligible(p) == p.d > 0 /\ Abs(p.n) * 100 < p.d

(* C6 *)

\* C6: renderStatusIndicator yields red exactly when p >= T and yellow
\* exactly when 0 < p < T, and never both for one p.
C6_RedYellow ==
    pc = "indicated" =>
        LET p == percentageChange
            t == BUDGET_PERCENT_INCREASE_RED
        IN  /\ res = "red" <=> AtLeast(p, t)
            /\ res = "yellow" <=> (Positive(p) /\ Below(p, t))
            /\ ~(AtLeast(p, t) /\ Positive(p) /\ Below(p, t))

\* a percentage equal to a positive threshold, marked red
C6_Witness ==
    /\ pc = "indicated"
    /\ percentageChange.d = 1000
    /\ BUDGET_PERCENT_INCREASE_RED > 0
    /\ percentageChange.n * 100 = BUDGET_PERCENT_INCREASE_RED * 1000
    /\ res = "red"

(* C7 *)

\* the indicator C7 asks of a percentage p
C7_Holds(p, indicator) ==
    /\ Negligible(p) => indicator = "none"
    /\ AtLeast([n |-> -p.n, d |-> p.d], 1) => indicator = "green"

\* C7, as claimed: with a red threshold above 0.01, a size delta or budget
\* delta p with |p| < 0.01 gets no colour, and one with p <= -0.01 gets
\* green.
C7_Claimed ==
    BUDGET_PERCENT_INCREASE_RED > 1 =>
        \A name \in {"global", "new", "changed"} :
            \A r \in RowsOf(output, name) :
                /\ r.size.diffShown =>
                     C7_Holds([n |-> r.size.diff * 100, d |-> r.size.gzip],
                              r.size.indicator)
                /\ r.budget.changeShown =>
                     C7_Holds([n |-> r.budget.change, d |-> 100],
                              r.budget.indicator)

====
